---- MODULE Spec2Model ----
(***************************************************************************)
(* Model of ai_interviewer_streamlit.py: the resume text extractor and the *)
(* three-page interview script (START -> INTERVIEW -> FEEDBACK) that the   *)
(* framework re-executes from the top on every widget event and on every   *)
(* st.rerun().  One action is one execution of main().                     *)
(***************************************************************************)
EXTENDS Integers, Sequences, FiniteSets, TLC

VARIABLES
    model_ok,        \* setup_ai_model() returns a model (API key present, configure succeeds)
    session_state,   \* st.session_state: a function on the keys that are set
    uploaded_file,   \* the value held by the st.file_uploader widget
    rerun_pending,   \* a script execution is queued (first page load, or st.rerun())
    calls,           \* history: every start_chat()/send_message() issued, in order
    epoch,           \* history: how many times st.session_state.clear() has run
    extraction,      \* history: what extract_text_from_file did in the last execution
    last_run         \* history: what the last execution of main() was given and did

vars == <<model_ok, session_state, uploaded_file, rerun_pending, calls, epoch,
          extraction, last_run>>

----------------------------------------------------------------------------
(* Bounds of the model *)

MaxCalls == 7        \* adapter calls recorded in one behaviour
MaxMessages == 4     \* transcript turns in one behaviour
MaxParts == 3        \* pages or paragraphs of a document given to the extractor alone

----------------------------------------------------------------------------
(* Text: a string is a sequence of one-character strings *)

NL == "\n"
Whitespace == {" ", NL}

RECURSIVE lstrip(_)
lstrip(t) == IF t # <<>> /\ Head(t) \in Whitespace THEN lstrip(Tail(t)) ELSE t

RECURSIVE rstrip(_)
rstrip(t) ==
    IF t # <<>> /\ t[Len(t)] \in Whitespace THEN rstrip(SubSeq(t, 1, Len(t) - 1)) ELSE t

\* str.strip()
strip(t) == rstrip(lstrip(t))

\* str.rfind("."), 1-based; 0 when there is no dot
rfind_dot(name) ==
    LET dots == {i \in 1..Len(name) : name[i] = "."}
    IN  IF dots = {} THEN 0 ELSE CHOOSE i \in dots : \A j \in dots : j <= i

\* pathlib.Path(file_name).suffix: from the last dot, unless that dot is the
\* first or the last character of the name
suffix(name) ==
    LET i == rfind_dot(name)
    IN  IF 1 < i /\ i < Len(name) THEN SubSeq(name, i, Len(name)) ELSE <<>>

EXT_PDF == <<".", "p", "d", "f">>
EXT_DOCX == <<".", "d", "o", "c", "x">>

----------------------------------------------------------------------------
(* Uploaded files: a name and the document the bytes hold.  format is what *)
(* the bytes really are; parts are the page texts (pdf) or the paragraph   *)
(* texts (docx), <<>> being a page or paragraph with no text.              *)

NoFile == [name |-> <<>>, format |-> "none", parts |-> <<>>]

Files ==
    { [name |-> <<"r", ".", "p", "d", "f">>, format |-> "pdf",
       parts |-> << <<"x">>, <<>>, <<" ", "y">> >>],
      [name |-> <<"r", ".", "p", "d", "f">>, format |-> "pdf",
       parts |-> << <<>>, <<" ">> >>],
      [name |-> <<"r", ".", "p", "d", "f">>, format |-> "junk", parts |-> <<>>],
      [name |-> <<"r", ".", "d", "o", "c", "x">>, format |-> "docx",
       parts |-> << <<" ", "x", " ">>, <<>> >>],
      [name |-> <<"r", ".", "d", "o", "c", "x">>, format |-> "docx",
       parts |-> << <<>> >>],
      [name |-> <<"r", ".", "t", "x", "t">>, format |-> "junk", parts |-> <<>>],
      [name |-> <<"r", ".", "P", "D", "F">>, format |-> "pdf",
       parts |-> << <<"x">> >>],
      [name |-> <<"r">>, format |-> "docx", parts |-> << <<"x">> >>] }

\* Mutant: a page with no text still contributes its newline
RECURSIVE pdf_text_KeepsTextless(_)
pdf_text_KeepsTextless(pages) ==
    IF pages = <<>> THEN <<>>
    ELSE Head(pages) \o <<NL>> \o pdf_text_KeepsTextless(Tail(pages))

\* for page in pdf.pages: if page_text: text += page_text + "\n"
RECURSIVE pdf_text(_)
pdf_text(pages) ==
    IF pages = <<>> THEN <<>>
    ELSE (IF Head(pages) # <<>> THEN Head(pages) \o <<NL>> ELSE <<>>)
         \o pdf_text(Tail(pages))

\* for para in doc.paragraphs: text += para.text + "\n"
RECURSIVE docx_text(_)
docx_text(paras) ==
    IF paras = <<>> THEN <<>>
    ELSE Head(paras) \o <<NL>> \o docx_text(Tail(paras))

\* The value returned (ok = FALSE is the None return) together with the
\* message shown: "unsupported" (st.error with the extension), "empty"
\* (st.warning), "error" (st.error from the except clause), "none".
Failure(kind, ext) == [ok |-> FALSE, text |-> <<>>, shown |-> kind, ext |-> ext]

\* text.strip() of the collected text, or the empty-text warning
Collected(text) ==
    IF strip(text) = <<>> THEN Failure("empty", <<>>)
    ELSE [ok |-> TRUE, text |-> strip(text), shown |-> "none", ext |-> <<>>]

\* Mutant: the extension is compared without regard to letter case
LowerCase(ch) ==
    CASE ch = "P" -> "p" [] ch = "D" -> "d" [] ch = "F" -> "f" [] OTHER -> ch

extract_text_from_file_AnyCase(f) ==
    LET file_extension == [i \in 1..Len(suffix(f.name)) |-> LowerCase(suffix(f.name)[i])]
    IN  IF file_extension = EXT_PDF
        THEN IF f.format # "pdf" THEN Failure("error", <<>>)
             ELSE Collected(pdf_text(f.parts))
        ELSE IF file_extension = EXT_DOCX
        THEN IF f.format # "docx" THEN Failure("error", <<>>)
             ELSE Collected(docx_text(f.parts))
        ELSE Failure("unsupported", suffix(f.name))

extract_text_from_file(f) ==
    LET file_extension == suffix(f.name)
    IN  IF file_extension = EXT_PDF
        THEN IF f.format # "pdf" THEN Failure("error", <<>>)     \* pdfplumber.open raises
             ELSE Collected(pdf_text(f.parts))
        ELSE IF file_extension = EXT_DOCX
        THEN IF f.format # "docx" THEN Failure("error", <<>>)    \* docx.Document raises
             ELSE Collected(docx_text(f.parts))
        ELSE Failure("unsupported", file_extension)

\* Which parser the call opened: pdfplumber.open ("pdf"), docx.Document
\* ("docx"), or neither
parser_opened(f) ==
    LET file_extension == suffix(f.name)
    IN  IF file_extension = EXT_PDF THEN "pdf"
        ELSE IF file_extension = EXT_DOCX THEN "docx"
        ELSE "none"

\* One call of extract_text_from_file: what it returned and showed, and the
\* parser it opened
Extraction(f) == [result |-> extract_text_from_file(f), parser |-> parser_opened(f)]

\* The extractor was not called
NotExtracted == [result |-> Failure("not_called", <<>>), parser |-> "none"]

----------------------------------------------------------------------------
(* Session state *)

None == 0                        \* chat_session = None; handles are 1, 2, ...
NoAnswer == ""                   \* st.chat_input returned None
Answers == {"a1", "a2"}          \* what the user may type
Replies == {"q1", "q2"}          \* what the remote model may answer

NoKeys == [k \in {} |-> 0]       \* st.session_state with no key set

\* if "<key>" not in st.session_state: st.session_state.<key> = <default>
InitSessionState(s) ==
    [chat_session    |-> IF "chat_session" \in DOMAIN s THEN s.chat_session ELSE None,
     messages        |-> IF "messages" \in DOMAIN s THEN s.messages ELSE <<>>,
     interview_state |-> IF "interview_state" \in DOMAIN s
                         THEN s.interview_state ELSE "START"]

\* What an execution of main() reads: the stored value, or the default the
\* initialisation gives a key that is not set
Phase == InitSessionState(session_state).interview_state
Transcript == InitSessionState(session_state).messages
Handle == InitSessionState(session_state).chat_session

Msg(role, content) == [role |-> role, content |-> content]

\* History records of adapter calls: the operation, which send it is, the
\* handle it was made on, whether it returned or raised, and the session
\* (count of clear() before it) it was made in
StartCall(h, ok) ==
    [op |-> "start", kind |-> "start", handle |-> h, ok |-> ok, epoch |-> epoch]
SendCall(kind, h, ok) ==
    [op |-> "send", kind |-> kind, handle |-> h, ok |-> ok, epoch |-> epoch]

\* model.start_chat() returns a new ChatSession object each time it succeeds
NewHandle == Cardinality({i \in 1..Len(calls) : calls[i].op = "start" /\ calls[i].ok}) + 1

----------------------------------------------------------------------------
(* The three pages.  Each gives the set of possible results of executing   *)
(* that branch of main() on session state s: the session state left, the   *)
(* adapter calls issued, whether the execution ended in st.rerun(), and    *)
(* whether it ran st.session_state.clear().                                *)

Outcome(s, issued, rerun) ==
    [state |-> s, issued |-> issued, rerun |-> rerun, cleared |-> FALSE]

\* Mutant: the upload goes on to the adapter whatever the extractor returned
Truthy_Always(resume_text) == TRUE

\* if resume_text:
Truthy(resume_text) == resume_text.ok /\ resume_text.text # <<>>

\* Mutant: the phase is advanced as soon as the chat is opened, before the
\* seed send has returned
StoreHandle_Advances(s, h) ==
    [s EXCEPT !.chat_session = h, !.interview_state = "INTERVIEW"]

\* st.session_state.chat_session = model.start_chat()
StoreHandle(s, h) == [s EXCEPT !.chat_session = h]

\* Mutant: the first question is recorded and the phase is not advanced
SeedReplied_StaysInStart(s, reply) == [s EXCEPT !.messages = Append(@, Msg("ai", reply))]

\* Mutant: the first question is not recorded in the transcript
SeedReplied_NoAppend(s, reply) == [s EXCEPT !.interview_state = "INTERVIEW"]

\* messages.append({"role": "ai", ...}); interview_state = "INTERVIEW"
SeedReplied(s, reply) ==
    [s EXCEPT !.messages = Append(@, Msg("ai", reply)),
              !.interview_state = "INTERVIEW"]

\* Mutant: a chat left in the session by an earlier attempt is used again
\* instead of opening a new one
UploadPage_ReusesHandle(s, file) ==
    IF file = NoFile THEN {Outcome(s, <<>>, FALSE)}
    ELSE LET resume_text == extract_text_from_file(file)
         IN  IF ~Truthy(resume_text) THEN {Outcome(s, <<>>, FALSE)}
             ELSE LET reuse == s.chat_session # None
                      h == IF reuse THEN s.chat_session ELSE NewHandle
                      s1 == StoreHandle(s, h)
                      started == IF reuse THEN <<>> ELSE <<StartCall(h, TRUE)>>
                  IN  (IF reuse THEN {}
                       ELSE {Outcome(s, <<StartCall(None, FALSE)>>, FALSE)})
                      \cup
                      {Outcome(s1, started \o <<SendCall("seed", h, FALSE)>>, FALSE)}
                      \cup
                      {Outcome(SeedReplied(s1, r),
                               started \o <<SendCall("seed", h, TRUE)>>, TRUE)
                         : r \in Replies}

\* START branch
UploadPage(s, file) ==
    IF file = NoFile THEN {Outcome(s, <<>>, FALSE)}
    ELSE LET resume_text == extract_text_from_file(file)
         IN  IF ~Truthy(resume_text) THEN {Outcome(s, <<>>, FALSE)}
             ELSE LET h == NewHandle
                      s1 == StoreHandle(s, h)
                  IN  \* start_chat() raises
                      {Outcome(s, <<StartCall(None, FALSE)>>, FALSE)}
                      \cup \* send_message(initial_prompt) raises
                      {Outcome(s1, <<StartCall(h, TRUE), SendCall("seed", h, FALSE)>>, FALSE)}
                      \cup \* both succeed; st.rerun()
                      {Outcome(SeedReplied(s1, r),
                               <<StartCall(h, TRUE), SendCall("seed", h, TRUE)>>, TRUE)
                         : r \in Replies}

\* Mutant: the user's answer is not recorded in the transcript
AppendUser_Dropped(s, user_answer) == s

\* messages.append({"role": "user", "content": user_answer})
AppendUser(s, user_answer) == [s EXCEPT !.messages = Append(@, Msg("user", user_answer))]

\* Mutant: the reply is recorded twice
AppendAi_Twice(s, reply) ==
    [s EXCEPT !.messages = Append(Append(@, Msg("ai", reply)), Msg("ai", reply))]

\* Mutant: the reply is tagged "assistant", a tag the pages do not use
AppendAi_AssistantTag(s, reply) ==
    [s EXCEPT !.messages = Append(@, Msg("assistant", reply))]

\* messages.append({"role": "ai", "content": response.text})
AppendAi(s, reply) == [s EXCEPT !.messages = Append(@, Msg("ai", reply))]

\* Mutant: a failed send records the error text as an assistant turn
ChatTurn_ReplyOnFailure(s, user_answer) ==
    LET s1 == AppendUser(s, user_answer)
        h == s1.chat_session
    IN  {Outcome(AppendAi(s1, "error"), <<SendCall("answer", h, FALSE)>>, FALSE)}
        \cup {Outcome(AppendAi(s1, r), <<SendCall("answer", h, TRUE)>>, FALSE)
                : r \in Replies}

\* the body of "if user_answer := st.chat_input(...)"
ChatTurn(s, user_answer) ==
    LET s1 == AppendUser(s, user_answer)
        h == s1.chat_session
    IN  IF h = None THEN {Outcome(s1, <<>>, FALSE)}    \* None.send_message: caught
        ELSE {Outcome(s1, <<SendCall("answer", h, FALSE)>>, FALSE)}
             \cup {Outcome(AppendAi(s1, r), <<SendCall("answer", h, TRUE)>>, FALSE)
                     : r \in Replies}

\* Mutant: the end button goes back to the upload page
EndClicked_ToStart(s) == [s EXCEPT !.interview_state = "START"]

\* if st.button("End Interview & Get Feedback"): interview_state = "FEEDBACK"; st.rerun()
EndClicked(s) == [s EXCEPT !.interview_state = "FEEDBACK"]

\* Mutant: the end button sends the feedback request itself
InterviewPage_SendsOnEnd(s, user_answer, end_clicked) ==
    LET chat == IF user_answer = NoAnswer THEN {Outcome(s, <<>>, FALSE)}
                ELSE ChatTurn(s, user_answer)
    IN  {Outcome(IF end_clicked THEN EndClicked(c.state) ELSE c.state,
                 IF end_clicked
                 THEN c.issued \o <<SendCall("feedback", s.chat_session, TRUE)>>
                 ELSE c.issued,
                 end_clicked) : c \in chat}

\* INTERVIEW branch
InterviewPage(s, user_answer, end_clicked) ==
    LET chat == IF user_answer = NoAnswer THEN {Outcome(s, <<>>, FALSE)}
                ELSE ChatTurn(s, user_answer)
    IN  {Outcome(IF end_clicked THEN EndClicked(c.state) ELSE c.state,
                 c.issued, end_clicked) : c \in chat}

\* feedback_response = chat_session.send_message(feedback_prompt), in try/except
FeedbackRequest(s) ==
    IF s.chat_session = None THEN {<<>>}                \* None.send_message: caught
    ELSE {<<SendCall("feedback", s.chat_session, ok)>> : ok \in BOOLEAN}

\* Mutant: the reset empties the transcript and keeps the rest
ClearSession_OnlyMessages(s) == [s EXCEPT !.messages = <<>>]

\* Mutant: the reset deletes the transcript and the phase and keeps the handle
ClearSession_KeepsHandle(s) == [chat_session |-> s.chat_session]

\* st.session_state.clear()
ClearSession(s) == NoKeys

\* Mutant: the feedback reply is appended to the transcript
FeedbackPage_AppendsFeedback(s, new_clicked) ==
    {[state |-> IF new_clicked THEN ClearSession(s)
                ELSE IF issued # <<>> /\ issued[1].ok THEN AppendAi(s, "q1") ELSE s,
      issued |-> issued, rerun |-> new_clicked, cleared |-> new_clicked]
       : issued \in FeedbackRequest(s)}

\* FEEDBACK branch
FeedbackPage(s, new_clicked) ==
    {[state |-> IF new_clicked THEN ClearSession(s) ELSE s, issued |-> issued,
      rerun |-> new_clicked, cleared |-> new_clicked]
       : issued \in FeedbackRequest(s)}

\* What the extractor showed in an execution given this file on this page
ExtractOutcome(page, file) ==
    IF page # "START" \/ file = NoFile THEN "skipped"
    ELSE LET r == extract_text_from_file(file)
         IN  IF r.ok THEN "ok" ELSE r.shown

----------------------------------------------------------------------------
(* Startup *)

\* Mutant: the script goes on without a model
setup_ai_model_NoCheck == TRUE

\* model = setup_ai_model(): TRUE when it returns a model; otherwise it has
\* shown the error and called st.stop()
setup_ai_model == model_ok

----------------------------------------------------------------------------
(* One execution of main() with the given widget values *)

main(file, user_answer, end_clicked, new_clicked, event) ==
    IF ~setup_ai_model
    THEN \* st.error(...); st.stop()
         /\ UNCHANGED <<model_ok, session_state, calls, epoch>>
         /\ uploaded_file' = NoFile
         /\ rerun_pending' = FALSE
         /\ extraction' = NotExtracted
         /\ last_run' = [event |-> event, page |-> "STOP", extract |-> "skipped",
                         ncalls |-> Len(calls), nmsgs |-> Len(Transcript)]
    ELSE LET s == InitSessionState(session_state)
             page == s.interview_state
             outcomes == CASE page = "START" -> UploadPage(s, file)
                           [] page = "INTERVIEW" -> InterviewPage(s, user_answer, end_clicked)
                           [] page = "FEEDBACK" -> FeedbackPage(s, new_clicked)
         IN  \E o \in outcomes :
                /\ session_state' = o.state
                /\ calls' = calls \o o.issued
                /\ rerun_pending' = o.rerun
                /\ epoch' = IF o.cleared THEN epoch + 1 ELSE epoch
                /\ uploaded_file' = IF page = "START" THEN file ELSE NoFile
                /\ extraction' = IF page = "START" /\ file # NoFile
                                 THEN Extraction(file) ELSE NotExtracted
                /\ last_run' = [event |-> event, page |-> page,
                                extract |-> ExtractOutcome(page, file),
                                ncalls |-> Len(calls), nmsgs |-> Len(s.messages)]
                /\ Len(calls') <= MaxCalls
                /\ Len(Transcript') <= MaxMessages
                /\ UNCHANGED model_ok

\* The widget is on the page the browser shows: the last execution ran to
\* the end of the branch that draws it
Rendered(page) ==
    /\ setup_ai_model
    /\ ~rerun_pending
    /\ "interview_state" \in DOMAIN session_state
    /\ session_state.interview_state = page

----------------------------------------------------------------------------
(* Actions *)

\* The first page load, or the execution queued by st.rerun()
ScriptRerun ==
    /\ rerun_pending
    /\ main(uploaded_file, NoAnswer, FALSE, FALSE, "rerun")

\* The user re-executes the page (Rerun in the menu) with no widget changed
UserRerun ==
    /\ ~rerun_pending
    /\ main(uploaded_file, NoAnswer, FALSE, FALSE, "user_rerun")

\* st.file_uploader: the user picks a file
UploadFile ==
    /\ Rendered("START")
    /\ \E f \in Files : main(f, NoAnswer, FALSE, FALSE, "upload")

\* st.file_uploader: the user removes the file
RemoveFile ==
    /\ Rendered("START")
    /\ uploaded_file # NoFile
    /\ main(NoFile, NoAnswer, FALSE, FALSE, "remove")

\* st.chat_input: the user submits an answer
SubmitAnswer ==
    /\ Rendered("INTERVIEW")
    /\ \E a \in Answers : main(NoFile, a, FALSE, FALSE, "answer")

\* st.button("End Interview & Get Feedback")
EndInterview ==
    /\ Rendered("INTERVIEW")
    /\ main(NoFile, NoAnswer, TRUE, FALSE, "end")

\* st.button("Start New Interview")
StartNewInterview ==
    /\ Rendered("FEEDBACK")
    /\ main(NoFile, NoAnswer, FALSE, TRUE, "reset")

Init ==
    /\ model_ok \in BOOLEAN
    /\ session_state = NoKeys
    /\ uploaded_file = NoFile
    /\ rerun_pending = TRUE
    /\ calls = <<>>
    /\ epoch = 0
    /\ extraction = NotExtracted
    /\ last_run = [event |-> "none", page |-> "none", extract |-> "skipped",
                   ncalls |-> 0, nmsgs |-> 0]

Next ==
    \/ ScriptRerun
    \/ UploadFile
    \/ RemoveFile
    \/ SubmitAnswer
    \/ EndInterview
    \/ StartNewInterview
    \/ UserRerun

Spec == Init /\ [][Next]_vars

----------------------------------------------------------------------------
(* The extractor on its own: one call of extract_text_from_file on each    *)
(* file of a larger set of names and documents                             *)

ExtractNames ==
    { <<"r", ".", "p", "d", "f">>,
      <<"r", ".", "d", "o", "c", "x">>,
      <<"r", ".", "t", "x", "t">>,
      <<"r", ".", "P", "D", "F">>,
      <<"r", ".", "D", "o", "c", "x">>,
      <<"r", ".", "p", "d", "f", "x">>,
      <<"r", ".", "d", "o", "c">>,
      <<"r">>,
      <<"p", "d", "f">>,
      <<".", "p", "d", "f">>,
      <<"r", ".", "p", "d", "f", ".", "t", "x", "t">>,
      <<"r", ".", "t", "x", "t", ".", "p", "d", "f">>,
      <<"r", ".", "p", "d", "f", ".", "d", "o", "c", "x">>,
      <<"r", ".", ".", "d", "o", "c", "x">> }

\* Texts of one page or paragraph
PartTexts ==
    { <<>>, <<"x">>, <<" ">>, <<NL>>, <<" ", "x", " ">>, <<"x", NL, "y">> }

ExtractParts == UNION {[1..k -> PartTexts] : k \in 0..MaxParts}

ExtractInputs ==
    {[name |-> n, format |-> fmt, parts |-> ps] :
        n \in ExtractNames, fmt \in {"pdf", "docx"}, ps \in ExtractParts}
    \cup {[name |-> n, format |-> "junk", parts |-> <<>>] : n \in ExtractNames}

ExtractInit ==
    /\ model_ok = TRUE
    /\ session_state = NoKeys
    /\ uploaded_file \in ExtractInputs
    /\ rerun_pending = FALSE
    /\ calls = <<>>
    /\ epoch = 0
    /\ extraction = NotExtracted
    /\ last_run = [event |-> "none", page |-> "none", extract |-> "skipped",
                   ncalls |-> 0, nmsgs |-> 0]

\* resume_text = extract_text_from_file(uploaded_file)
Extract ==
    /\ extraction = NotExtracted
    /\ extraction' = Extraction(uploaded_file)
    /\ UNCHANGED <<model_ok, session_state, uploaded_file, rerun_pending, calls, epoch,
                   last_run>>

ExtractNext == Extract

ExtractSpec == ExtractInit /\ [][ExtractNext]_vars

----------------------------------------------------------------------------
(* Vocabulary of the properties *)

Roles(msgs) == [i \in 1..Len(msgs) |-> msgs[i].role]

\* Positions in calls of the calls the last execution of main() issued
IssuedByLastRun == (last_run.ncalls + 1)..Len(calls)

\* The last execution had a start_chat() or send_message() raise
FailedRun == \E i \in IssuedByLastRun : ~calls[i].ok

\* The answer sends of the current session, in order
IsCurrentAnswer(c) == c.kind = "answer" /\ c.epoch = epoch
AnswerSends == SelectSeq(calls, IsCurrentAnswer)

\* How many user turns the transcript holds up to position i
UserTurnsUpTo(i) == Cardinality({j \in 1..i : Transcript[j].role = "user"})

----------------------------------------------------------------------------
(* C1 *)

\* C1 (as claimed): in every reachable state the chat session handle is
\* present if and only if the phase is INTERVIEW or FEEDBACK.
C1_HandleIffInterviewOrFeedback ==
    (Handle # None) <=> (Phase \in {"INTERVIEW", "FEEDBACK"})

----------------------------------------------------------------------------
(* C2 *)

\* C2 (as claimed): within one session at most one feedback send is ever
\* issued, however often the FEEDBACK page is executed, the execution that
\* handles the reset button included.
C2_OneFeedbackSendPerSession ==
    \A i, j \in 1..Len(calls) :
        (/\ calls[i].kind = "feedback"
         /\ calls[j].kind = "feedback"
         /\ calls[i].epoch = calls[j].epoch) => i = j

----------------------------------------------------------------------------
(* C3 *)

\* C3 (as claimed): no two user turns are adjacent in the transcript, and
\* the chat input is not offered while the last turn is a user turn that
\* has no assistant turn after it.
C3_NoInputWhileUnanswered ==
    /\ \A i \in 1..(Len(Transcript) - 1) :
          ~(Transcript[i].role = "user" /\ Transcript[i + 1].role = "user")
    /\ Rendered("INTERVIEW") =>
          (Transcript = <<>> \/ Transcript[Len(Transcript)].role # "user")

\* C3 (amended): the k-th user turn of the session is the one sent by the
\* k-th answer send; it is immediately followed by an assistant turn if and
\* only if that send succeeded (so two user turns are adjacent only when
\* the first one's send failed), and no two assistant turns are adjacent.
C3_UserTurnAnsweredIffSendSucceeded ==
    /\ UserTurnsUpTo(Len(Transcript)) = Len(AnswerSends)
    /\ \A i \in 1..Len(Transcript) :
          Transcript[i].role = "user" =>
             (AnswerSends[UserTurnsUpTo(i)].ok
                <=> (i < Len(Transcript) /\ Transcript[i + 1].role = "ai"))
    /\ \A i \in 1..(Len(Transcript) - 1) :
          ~(Transcript[i].role = "ai" /\ Transcript[i + 1].role = "ai")

\* A failed answer was followed by a second answer, which was replied to
C3_Witness ==
    /\ Phase = "INTERVIEW"
    /\ Roles(Transcript) = <<"ai", "user", "user", "ai">>

----------------------------------------------------------------------------
(* C4 *)

\* C4: the execution that processes a submitted answer issues exactly one
\* send and lengthens the transcript by a user turn and an assistant turn
\* (2) when the send succeeds, and by the user turn alone (1) when it fails.
C4_AnswerLengthensTranscript ==
    last_run.event = "answer" =>
        LET n == last_run.nmsgs
        IN  /\ Len(calls) = last_run.ncalls + 1
            /\ calls[Len(calls)].kind = "answer"
            /\ Len(Transcript) = n + (IF calls[Len(calls)].ok THEN 2 ELSE 1)
            /\ Transcript[n + 1].role = "user"
            /\ calls[Len(calls)].ok => Transcript[n + 2].role = "ai"

\* An answer whose send raised, submitted to a transcript that already held
\* an answered exchange
C4_Witness ==
    /\ last_run.event = "answer"
    /\ last_run.nmsgs = 3
    /\ ~calls[Len(calls)].ok
    /\ Len(Transcript) = 4

----------------------------------------------------------------------------
(* C5 *)

\* C5: in every reachable state the transcript is empty if and only if the
\* phase is START.
C5_EmptyTranscriptIffStart == (Transcript = <<>>) <=> (Phase = "START")

\* Back on the upload page after a reset, with a failed upload since
C5_Witness ==
    /\ epoch >= 1
    /\ Phase = "START"
    /\ FailedRun
    /\ calls[Len(calls)].epoch = epoch

----------------------------------------------------------------------------
(* C6 *)

\* C6: every send was made on a handle that a successful start_chat() of
\* the same session (after the last clear()) returned before it.
C6_SendOnlyAfterStart ==
    \A i \in 1..Len(calls) :
        calls[i].op = "send" =>
            /\ calls[i].handle # None
            /\ \E j \in 1..(i - 1) :
                  /\ calls[j].op = "start"
                  /\ calls[j].ok
                  /\ calls[j].handle = calls[i].handle
                  /\ calls[j].epoch = calls[i].epoch

\* A seed send, an answer send and a feedback send, and a send after a reset
C6_Witness ==
    /\ \E i \in 1..Len(calls) : calls[i].kind = "answer"
    /\ \E i \in 1..Len(calls) : calls[i].kind = "feedback"
    /\ \E i \in 1..Len(calls) : calls[i].kind = "seed" /\ calls[i].epoch = 1

----------------------------------------------------------------------------
(* C7 *)

----------------------------------------------------------------------------
(* C8 *)

\* The user events that re-trigger a call of the given kind
Retrigger(kind) ==
    CASE kind \in {"start", "seed"} -> {"upload", "user_rerun"}
      [] kind = "answer" -> {"answer"}
      [] kind = "feedback" -> {"user_rerun"}

\* C8 (as claimed): once a call of some kind has failed in a session, a call
\* of that kind is issued again in that session only by an execution that
\* the user's re-trigger of that action started; the execution of the reset
\* click in particular does not re-send a failed feedback request.
C8_NoAutomaticRetry ==
    \A i \in IssuedByLastRun :
        (\E j \in 1..last_run.ncalls :
            /\ calls[j].epoch = calls[i].epoch
            /\ calls[j].kind = calls[i].kind
            /\ ~calls[j].ok)
        => last_run.event \in Retrigger(calls[i].kind)

----------------------------------------------------------------------------
(* C9 *)

\* C9: the execution that handles the reset button leaves no key in the
\* session state, so that the transcript is empty, the phase is START and
\* there is no chat handle, whatever the session held.
C9_ResetClearsSession ==
    last_run.event = "reset" =>
        /\ session_state = NoKeys
        /\ Transcript = <<>>
        /\ Phase = "START"
        /\ Handle = None

\* A reset of a session with a four-turn transcript whose feedback failed
C9_Witness ==
    /\ last_run.event = "reset"
    /\ last_run.nmsgs = 4
    /\ \E i \in 1..Len(calls) : calls[i].kind = "feedback" /\ ~calls[i].ok

----------------------------------------------------------------------------
(* C10 *)

\* C10: an execution of the START page in which the extractor failed
\* (unsupported extension, empty text, parser fault) leaves the phase START
\* and the transcript empty, and issues neither start_chat() nor
\* send_message().
C10_ExtractFailureStaysInStart ==
    (last_run.page = "START" /\ last_run.extract \in {"unsupported", "empty", "error"}) =>
        /\ Phase = "START"
        /\ Transcript = <<>>
        /\ IssuedByLastRun = {}
        /\ ~rerun_pending

\* An image-only document was uploaded after an earlier upload had reached
\* the adapter
C10_Witness ==
    /\ last_run.page = "START"
    /\ last_run.extract = "empty"
    /\ last_run.ncalls > 0
    /\ uploaded_file # NoFile

----------------------------------------------------------------------------
(* C11 *)

\* C11: every step either keeps the phase or moves it START -> INTERVIEW,
\* INTERVIEW -> FEEDBACK or FEEDBACK -> START, and the step back to START is
\* the execution of the reset click.
C11_PhaseOrder ==
    [][ \/ Phase' = Phase
        \/ Phase = "START" /\ Phase' = "INTERVIEW"
        \/ Phase = "INTERVIEW" /\ Phase' = "FEEDBACK"
        \/ Phase = "FEEDBACK" /\ Phase' = "START" /\ last_run'.event = "reset" ]_vars

\* A second interview is in progress: the whole cycle has been walked
C11_Witness ==
    /\ epoch = 1
    /\ Phase = "INTERVIEW"
    /\ ~rerun_pending

----------------------------------------------------------------------------
(* C12 *)

\* The last execution ran the START page on a file whose text was
\* extracted, and no adapter call raised
SuccessfulUpload ==
    /\ last_run.page = "START"
    /\ last_run.extract = "ok"
    /\ ~FailedRun

\* C12: a successful upload issues exactly start_chat() and then one seed
\* send on the handle it returned, appends one assistant turn holding a
\* reply to the empty transcript, and moves the phase to INTERVIEW.
C12_SuccessfulUpload ==
    SuccessfulUpload =>
        LET n == last_run.ncalls
        IN  /\ Len(calls) = n + 2
            /\ calls[n + 1].op = "start" /\ calls[n + 1].ok
            /\ calls[n + 2].op = "send" /\ calls[n + 2].kind = "seed" /\ calls[n + 2].ok
            /\ calls[n + 1].handle = calls[n + 2].handle
            /\ Handle = calls[n + 2].handle
            /\ last_run.nmsgs = 0
            /\ Len(Transcript) = 1
            /\ Transcript[1].role = "ai"
            /\ Transcript[1].content \in Replies
            /\ Phase = "INTERVIEW"
            /\ rerun_pending

\* A successful upload that follows an upload whose seed send had failed
C12_Witness ==
    /\ SuccessfulUpload
    /\ last_run.ncalls = 2
    /\ ~calls[2].ok
    /\ Phase = "INTERVIEW"

----------------------------------------------------------------------------
(* C13 *)

IsPrefix(a, b) == Len(a) <= Len(b) /\ SubSeq(b, 1, Len(a)) = a

\* C13: a step taken in INTERVIEW leaves the turns the transcript held in
\* place and only adds turns after them; a step taken in FEEDBACK other
\* than the reset click leaves the transcript as it is.
C13_TranscriptAppendOnly ==
    [][ /\ Phase = "INTERVIEW" => IsPrefix(Transcript, Transcript')
        /\ (Phase = "FEEDBACK" /\ last_run'.event # "reset") =>
              Transcript' = Transcript ]_vars

\* The feedback request was answered and the three-turn transcript is as
\* it was
C13_Witness ==
    /\ last_run.page = "FEEDBACK"
    /\ last_run.event # "reset"
    /\ IssuedByLastRun # {}
    /\ ~FailedRun
    /\ last_run.nmsgs = 3
    /\ Len(Transcript) = 3

----------------------------------------------------------------------------
(* C14 *)

\* C14: the execution of the end button, taken in INTERVIEW, moves the
\* phase to FEEDBACK, issues no adapter call and leaves the transcript and
\* the chat handle as they were.
C14_EndSendsNothing ==
    [][ last_run'.event = "end" =>
          /\ Phase = "INTERVIEW"
          /\ Phase' = "FEEDBACK"
          /\ calls' = calls
          /\ Transcript' = Transcript
          /\ Handle' = Handle ]_vars

\* The end button was pressed on a transcript of three turns; the feedback
\* page has not been executed yet
C14_Witness ==
    /\ last_run.event = "end"
    /\ Phase = "FEEDBACK"
    /\ rerun_pending
    /\ Len(Transcript) = 3

----------------------------------------------------------------------------
(* C15 *)

\* C15: when setup_ai_model() has no model to return, no execution gets
\* past it: no adapter call is ever issued, no session key is ever set, the
\* transcript stays empty and the phase stays START.
C15_NoModelNoSession ==
    ~model_ok =>
        /\ calls = <<>>
        /\ session_state = NoKeys
        /\ Transcript = <<>>
        /\ Phase = "START"
        /\ uploaded_file = NoFile

\* Without a model the page has been loaded and re-executed
C15_Witness ==
    /\ ~model_ok
    /\ last_run.event = "user_rerun"
    /\ last_run.page = "STOP"

----------------------------------------------------------------------------
(* Vocabulary of the extractor's properties, stated on the characters of   *)
(* the name and on the document's parts                                    *)

\* e is the extension of the name: the part from the last dot to the end,
\* when that dot is neither the first nor the last character; otherwise
\* the empty extension
IsExtensionOf(e, name) ==
    LET proper(x) ==
            /\ Len(x) >= 2
            /\ Len(x) < Len(name)
            /\ x = SubSeq(name, Len(name) - Len(x) + 1, Len(name))
            /\ x[1] = "."
            /\ \A k \in 2..Len(x) : x[k] # "."
    IN  \/ proper(e)
        \/ /\ e = <<>>
           /\ ~\E i \in 1..Len(name) : proper(SubSeq(name, i, Len(name)))

\* The extensions a name may be said to have: its tails and the empty one
Tails(name) == {SubSeq(name, i, Len(name)) : i \in 1..(Len(name) + 1)}

Supported == { <<".", "p", "d", "f">>, <<".", "d", "o", "c", "x">> }

HasText(part) == part # <<>>

\* The texts joined by single newlines
RECURSIVE JoinLines(_)
JoinLines(parts) ==
    IF parts = <<>> THEN <<>>
    ELSE IF Len(parts) = 1 THEN parts[1]
    ELSE parts[1] \o <<NL>> \o JoinLines(Tail(parts))

IsBlank(ch) == ch = " " \/ ch = NL

\* r is t without its leading and trailing blanks, and is not empty
IsTrimOf(r, t) ==
    /\ r # <<>>
    /\ ~IsBlank(r[1])
    /\ ~IsBlank(r[Len(r)])
    /\ \E i \in 1..Len(t) :
          /\ i + Len(r) - 1 <= Len(t)
          /\ r = SubSeq(t, i, i + Len(r) - 1)
          /\ \A k \in 1..Len(t) : (k < i \/ k > i + Len(r) - 1) => IsBlank(t[k])

\* The extractor has been called on the uploaded file
Extracted == extraction # NotExtracted

----------------------------------------------------------------------------
(* C16 *)

\* C16: for a file name whose extension is neither .pdf nor .docx (no
\* extension and other letter case included), the extractor returns None
\* after showing the unsupported-type error that carries exactly that
\* extension, and opens neither parser.
C16_UnsupportedExtension ==
    Extracted =>
        \A e \in Tails(uploaded_file.name) :
            (IsExtensionOf(e, uploaded_file.name) /\ e \notin Supported) =>
                /\ ~extraction.result.ok
                /\ extraction.result.shown = "unsupported"
                /\ extraction.result.ext = e
                /\ extraction.parser = "none"

\* A well-formed PDF named r.PDF was refused with the extension .PDF
C16_Witness ==
    /\ Extracted
    /\ uploaded_file.name = <<"r", ".", "P", "D", "F">>
    /\ uploaded_file.format = "pdf"
    /\ uploaded_file.parts = << <<"x">> >>
    /\ extraction.result.shown = "unsupported"
    /\ extraction.result.ext = <<".", "P", "D", "F">>

----------------------------------------------------------------------------
(* C17 *)

\* C17 (as claimed): on every input the extractor ends in a returned text,
\* in the empty-text failure or in the read-error failure.
C17_ThreeOutcomesOnEveryInput ==
    Extracted =>
        \/ extraction.result.ok
        \/ extraction.result.shown = "empty"
        \/ extraction.result.shown = "error"

\* The outcome the claim gives a document of a supported extension
ExpectedOutcome(f, e) ==
    LET declared == IF e = <<".", "p", "d", "f">> THEN "pdf" ELSE "docx"
        kept == IF declared = "pdf" THEN SelectSeq(f.parts, HasText) ELSE f.parts
        joined == JoinLines(kept)
        r == extraction.result
    IN  IF f.format # declared
        THEN ~r.ok /\ r.shown = "error"
        ELSE IF \A k \in 1..Len(joined) : IsBlank(joined[k])
        THEN ~r.ok /\ r.shown = "empty"
        ELSE r.ok /\ r.shown = "none" /\ IsTrimOf(r.text, joined)

\* C17 (amended): on every input whose extension is .pdf or .docx the
\* extractor ends in exactly one of: the read-error failure when the parser
\* faults; the empty-text failure when the newline-join of the page texts
\* (textless pages skipped) or paragraph texts is blank; that join without
\* its leading and trailing blanks, a non-empty text, otherwise.  On no
\* input does it return an empty text.
C17_OutcomeOfSupportedInput ==
    Extracted =>
        /\ \A e \in Tails(uploaded_file.name) :
              (IsExtensionOf(e, uploaded_file.name) /\ e \in Supported) =>
                  ExpectedOutcome(uploaded_file, e)
        /\ extraction.result.ok => extraction.result.text # <<>>
        /\ extraction.result.shown \in {"none", "empty", "error", "unsupported"}

\* A PDF with a textless page between two pages with text: the text
\* returned joins the two and is trimmed
C17_Witness ==
    /\ Extracted
    /\ uploaded_file.name = <<"r", ".", "p", "d", "f">>
    /\ uploaded_file.format = "pdf"
    /\ uploaded_file.parts = << <<" ", "x", " ">>, <<>>, <<"x", NL, "y">> >>
    /\ extraction.result.ok
    /\ extraction.result.text = <<"x", " ", NL, "x", NL, "y">>

----------------------------------------------------------------------------
(* C18 *)

\* C18: every answer send and every feedback send is on the handle of a
\* seed send that succeeded earlier in the same session; every seed send
\* is on the handle that the start_chat() just before it returned, a
\* handle no earlier start_chat() returned; nothing is sent on a handle
\* after its seed send failed; and nothing is sent on a handle that was
\* opened before the last clear().
C18_OneConversationPerInterview ==
    /\ \A i \in 1..Len(calls) :
          calls[i].kind \in {"answer", "feedback"} =>
             \E j \in 1..(i - 1) :
                /\ calls[j].kind = "seed" /\ calls[j].ok
                /\ calls[j].handle = calls[i].handle
                /\ calls[j].epoch = calls[i].epoch
    /\ \A i \in 1..Len(calls) :
          calls[i].kind = "seed" =>
             /\ i > 1
             /\ calls[i - 1].op = "start" /\ calls[i - 1].ok
             /\ calls[i - 1].handle = calls[i].handle
    /\ \A i, j \in 1..Len(calls) :
          (i < j /\ calls[i].op = "start" /\ calls[i].ok
                 /\ calls[j].op = "start" /\ calls[j].ok) =>
             calls[i].handle # calls[j].handle
    /\ \A i, j \in 1..Len(calls) :
          (i < j /\ calls[i].kind = "seed" /\ ~calls[i].ok /\ calls[j].op = "send") =>
             calls[j].handle # calls[i].handle
    /\ \A i, j \in 1..Len(calls) :
          (calls[i].op = "start" /\ calls[i].ok /\ calls[j].op = "send"
             /\ calls[j].handle = calls[i].handle) =>
             calls[j].epoch = calls[i].epoch

\* The first handle's seed send failed; the second handle took the seed,
\* an answer and the feedback request
C18_Witness ==
    /\ Len(calls) >= 6
    /\ calls[2].kind = "seed" /\ ~calls[2].ok /\ calls[2].handle = 1
    /\ calls[4].kind = "seed" /\ calls[4].ok /\ calls[4].handle = 2
    /\ \E i \in 1..Len(calls) : calls[i].kind = "answer" /\ calls[i].handle = 2
    /\ \E i \in 1..Len(calls) : calls[i].kind = "feedback" /\ calls[i].handle = 2

----------------------------------------------------------------------------
(* C19 *)

\* Positions of the sends made on the current handle
SendsOnHandle == {i \in 1..Len(calls) : calls[i].op = "send" /\ calls[i].handle = Handle}

TurnsTagged(role) == {i \in 1..Len(Transcript) : Transcript[i].role = role}

\* C19: in INTERVIEW the transcript holds as many assistant turns as sends
\* on the current handle have succeeded (the seed and the answers), and as
\* many user turns as answer sends have been made on it, failed ones
\* included.
C19_TurnsMatchSends ==
    Phase = "INTERVIEW" =>
        /\ Cardinality(TurnsTagged("ai"))
             = Cardinality({i \in SendsOnHandle : calls[i].ok})
        /\ Cardinality(TurnsTagged("user"))
             = Cardinality({i \in SendsOnHandle : calls[i].kind = "answer"})
        /\ \A i \in SendsOnHandle : calls[i].kind \in {"seed", "answer"}

\* An interview on the second handle with one answer that failed and one
\* that was replied to
C19_Witness ==
    /\ Phase = "INTERVIEW"
    /\ Handle = 2
    /\ \E i \in SendsOnHandle : calls[i].kind = "answer" /\ ~calls[i].ok
    /\ \E i \in SendsOnHandle : calls[i].kind = "answer" /\ calls[i].ok

----------------------------------------------------------------------------
(* C20 *)

\* C20: every turn of the transcript is tagged "user" or "ai", and the first
\* turn of a transcript that is not empty is tagged "ai".
C20_TurnTags ==
    /\ \A i \in 1..Len(Transcript) : Transcript[i].role \in {"user", "ai"}
    /\ Transcript # <<>> => Transcript[1].role = "ai"

\* A transcript of four turns that holds both tags, on the feedback page
C20_Witness ==
    /\ Phase = "FEEDBACK"
    /\ Len(Transcript) = 4
    /\ TurnsTagged("user") # {}
    /\ Cardinality(TurnsTagged("ai")) >= 2

====
